---- MODULE Spec2Model ----
(***************************************************************************)
(* A model of the bank ledger of src/bank.hpp and src/bank.cpp: accounts   *)
(* (bank::user) with a balance, a transaction log, a mutex and a condition *)
(* variable; the ledger (bank::ledger) that maps names to accounts; and    *)
(* the cursors (bank::user_transactions_iterator).  Every thread executes  *)
(* the member functions statement by statement, so that all interleavings  *)
(* of the statements of concurrent calls are explored.                     *)
(***************************************************************************)
EXTENDS Integers, Sequences, FiniteSets, TLC

(***************************************************************************)
(* Bounds of the model.                                                    *)
(***************************************************************************)
NumThreads == 2
MaxOps == 5
MaxTransfers == 3

Names == {"Alice", "Bob"}
Amounts == {-1, 0, 60, 101}
Comments == {"rent"}

(***************************************************************************)
(* Program constants and null values.                                      *)
(***************************************************************************)
InitialBalance == 100
NoThread == 0
nullptr == 0

VARIABLES
    users_,         \* ledger::users_: name -> account object (index of the heap)
    ledger_mutex,   \* ledger::mutex_: the thread that owns it, or NoThread
    name_,          \* user::name_ of every constructed user object
    balance_,       \* user::balance_
    transactions_,  \* user::transactions_
    mutex_,         \* user::mutex_: the owning thread, or NoThread
    cv_waiting,     \* user::cv_new_transaction_: the threads blocked in wait()
    pc,             \* the statement every thread executes next
    frame,          \* the arguments and locals of the call a thread is in
    ret,            \* what the last call of a thread returned or threw
    iter,           \* the user_transactions_iterator a thread owns
    ops,            \* number of calls made so far
    got,            \* history: the objects get_or_create_user returned per name
    it_start,       \* history: index_ of a thread's iterator when it was made
    it_made,        \* history: the call that made a thread's iterator, the
                    \* log that call saw and, for a copy, the thread whose
                    \* iterator was copied and how much that had delivered
    delivered,      \* history: what wait_next_transaction returned to a thread
    called,         \* history: the transfers a thread of the exchange has called
    session,        \* the command a connection of the server executes, and
                    \* what it has written to its client
    pre             \* history: both accounts when a transfer got its locks

\* The threads of a specification are those its initial state starts.
Threads == DOMAIN pc

ledger == <<users_, ledger_mutex>>
heap == <<name_, balance_, transactions_, mutex_, cv_waiting>>
hist == <<got, it_start, it_made, delivered, called, session, pre>>
vars == <<users_, ledger_mutex, name_, balance_, transactions_, mutex_,
          cv_waiting, pc, frame, ret, iter, ops, got, it_start, it_made,
          delivered, called, session, pre>>

(***************************************************************************)
(* std::to_string of an int.                                               *)
(***************************************************************************)
Digits == <<"0", "1", "2", "3", "4", "5", "6", "7", "8", "9">>

RECURSIVE NatToString(_)
NatToString(n) ==
    IF n < 10 THEN Digits[n + 1]
    ELSE NatToString(n \div 10) \o Digits[(n % 10) + 1]

to_string(n) == IF n < 0 THEN "-" \o NatToString(-n) ELSE NatToString(n)

(***************************************************************************)
(* struct transaction.                                                     *)
(***************************************************************************)
transaction(from, balance_delta_xts, comment) ==
    [counterparty |-> from, balance_delta_xts |-> balance_delta_xts,
     comment |-> comment]

(***************************************************************************)
(* The exceptions.                                                         *)
(***************************************************************************)
\* Mutant: the two numbers of the message are exchanged.
create_message_swapped(current, requested) ==
    "Not enough funds: " \o to_string(requested) \o " XTS available, "
        \o to_string(current) \o " XTS requested"

create_message(current, requested) ==
    "Not enough funds: " \o to_string(current) \o " XTS available, "
        \o to_string(requested) \o " XTS requested"

not_enough_funds_error(current_balance, requested_XTS) ==
    [kind |-> "not_enough_funds_error",
     what |-> create_message(current_balance, requested_XTS)]

invalid_transfer_error(msg) == [kind |-> "invalid_transfer_error", what |-> msg]

(***************************************************************************)
(* Locals of a call, and results.                                          *)
(***************************************************************************)
NoFrame ==
    [op |-> "none", name |-> "", this |-> nullptr, counterparty |-> nullptr,
     amount_xts |-> 0, comment |-> "", new_user_amount |-> 0, first |-> 0,
     obj |-> nullptr]

NoRet == [kind |-> "none"]
NoIter == [user_ |-> nullptr, index_ |-> 0]
NoPre == [valid |-> FALSE]
NoSession ==
    [at |-> "none", user_ |-> nullptr, n |-> <<0, 0, 0, 0>>, amount |-> 0,
     comment |-> "", counterparty |-> "",
     listed |-> <<>>, listing |-> <<>>, pushed |-> <<>>, reply |-> ""]
NoMade == [op |-> "none", log |-> <<>>, of |-> NoThread, at |-> 0]

Users == 1..Len(name_)
Accounts == {users_[n] : n \in DOMAIN users_}

RECURSIVE SumDeltas(_)
SumDeltas(log) ==
    IF log = <<>> THEN 0
    ELSE SumDeltas(SubSeq(log, 1, Len(log) - 1)) + log[Len(log)].balance_delta_xts

Init ==
    /\ users_ = <<>>
    /\ ledger_mutex = NoThread
    /\ name_ = <<>>
    /\ balance_ = <<>>
    /\ transactions_ = <<>>
    /\ mutex_ = <<>>
    /\ cv_waiting = <<>>
    /\ pc = [t \in 1..NumThreads |-> "idle"]
    /\ frame = [t \in 1..NumThreads |-> NoFrame]
    /\ ret = [t \in 1..NumThreads |-> NoRet]
    /\ iter = [t \in 1..NumThreads |-> NoIter]
    /\ ops = 0
    /\ got = [n \in Names |-> {}]
    /\ it_start = [t \in 1..NumThreads |-> 0]
    /\ it_made = [t \in 1..NumThreads |-> NoMade]
    /\ delivered = [t \in 1..NumThreads |-> <<>>]
    /\ called = [t \in 1..NumThreads |-> <<>>]
    /\ session = [t \in 1..NumThreads |-> NoSession]
    /\ pre = [t \in 1..NumThreads |-> NoPre]

(***************************************************************************)
(* Steps shared by the member functions.                                   *)
(***************************************************************************)
Goto(t, label) == pc' = [pc EXCEPT ![t] = label]

Call(t, f) ==
    /\ pc[t] = "idle"
    /\ ops < MaxOps
    /\ ops' = ops + 1
    /\ frame' = [frame EXCEPT ![t] = f]
    /\ ret' = [ret EXCEPT ![t] = NoRet]

Return(t, r) ==
    /\ Goto(t, "idle")
    /\ frame' = [frame EXCEPT ![t] = NoFrame]
    /\ ret' = [ret EXCEPT ![t] = r]

\* std::mutex::lock: blocks until the mutex is free.
MutexFree(a) == mutex_[a] = NoThread

Lock(t, a) ==
    /\ MutexFree(a)
    /\ mutex_' = [mutex_ EXCEPT ![a] = t]

Unlock(t, a) == mutex_' = [mutex_ EXCEPT ![a] = NoThread]

\* Mutant: the transaction is inserted at the front of the vector.
add_transaction_front(a, to, delta, comment) ==
    /\ transactions_' =
           [transactions_ EXCEPT ![a] = <<transaction(to, delta, comment)>> \o @]
    /\ cv_waiting' = [cv_waiting EXCEPT ![a] = {}]

\* Mutant: the waiting threads are not notified.
add_transaction_silent(a, to, delta, comment) ==
    /\ transactions_' =
           [transactions_ EXCEPT ![a] = Append(@, transaction(to, delta, comment))]
    /\ UNCHANGED cv_waiting

\* user::add_transaction: emplace_back, then notify_all.
add_transaction(a, to, delta, comment) ==
    /\ transactions_' =
           [transactions_ EXCEPT ![a] = Append(@, transaction(to, delta, comment))]
    /\ cv_waiting' = [cv_waiting EXCEPT ![a] = {}]

(***************************************************************************)
(* ledger::get_or_create_user, with user::user inside users_.emplace.      *)
(***************************************************************************)
\* Mutant: get_or_create_user does not wait for the ledger's mutex.
LedgerMutexIgnored == TRUE

LedgerMutexFree == ledger_mutex = NoThread

get_or_create_user_call(t, name) ==
    /\ Call(t, [NoFrame EXCEPT !.op = "get_or_create_user", !.name = name])
    /\ Goto(t, "gc_lock")
    /\ UNCHANGED <<ledger, heap, iter, hist>>

get_or_create_user_lock(t) ==
    /\ pc[t] = "gc_lock"
    /\ LedgerMutexFree
    /\ ledger_mutex' = t
    /\ Goto(t, "gc_contains")
    /\ UNCHANGED <<users_, heap, frame, ret, iter, ops, hist>>

\* Mutant: the ledger's mutex is released after the lookup.
get_or_create_user_contains_released(t) ==
    /\ pc[t] = "gc_contains"
    /\ IF frame[t].name \in DOMAIN users_
       THEN Goto(t, "gc_at") /\ UNCHANGED ledger_mutex
       ELSE Goto(t, "ctor_init") /\ ledger_mutex' = NoThread
    /\ UNCHANGED <<users_, heap, frame, ret, iter, ops, hist>>

get_or_create_user_contains(t) ==
    /\ pc[t] = "gc_contains"
    /\ IF frame[t].name \in DOMAIN users_
       THEN Goto(t, "gc_at")
       ELSE Goto(t, "ctor_init")
    /\ UNCHANGED <<ledger, heap, frame, ret, iter, ops, hist>>

\* Mutant: the account is entered in the mapping before it is constructed.
user_init_published(t) ==
    /\ pc[t] = "ctor_init"
    /\ name_' = Append(name_, frame[t].name)
    /\ balance_' = Append(balance_, InitialBalance)
    /\ transactions_' = Append(transactions_, <<>>)
    /\ mutex_' = Append(mutex_, NoThread)
    /\ cv_waiting' = Append(cv_waiting, {})
    /\ frame' = [frame EXCEPT ![t].obj = Len(name_) + 1]
    /\ users_' = users_ @@ (frame[t].name :> Len(name_) + 1)
    /\ Goto(t, "ctor_lock")
    /\ UNCHANGED <<ledger_mutex, ret, iter, ops, hist>>

\* user::user, member initialisers: name_(name), balance_(100).
user_init(t) ==
    /\ pc[t] = "ctor_init"
    /\ name_' = Append(name_, frame[t].name)
    /\ balance_' = Append(balance_, InitialBalance)
    /\ transactions_' = Append(transactions_, <<>>)
    /\ mutex_' = Append(mutex_, NoThread)
    /\ cv_waiting' = Append(cv_waiting, {})
    /\ frame' = [frame EXCEPT ![t].obj = Len(name_) + 1]
    /\ Goto(t, "ctor_lock")
    /\ UNCHANGED <<ledger, ret, iter, ops, hist>>

user_lock(t) ==
    /\ pc[t] = "ctor_lock"
    /\ Lock(t, frame[t].obj)
    /\ Goto(t, "ctor_add")
    /\ UNCHANGED <<ledger, name_, balance_, transactions_, cv_waiting, frame,
                   ret, iter, ops, hist>>

\* Mutant: the opening transaction's comment lacks the name.
InitialCommentNoName(name) == "Initial deposit"

InitialComment(name) == "Initial deposit for " \o name

user_add_transaction(t) ==
    /\ pc[t] = "ctor_add"
    /\ add_transaction(frame[t].obj, nullptr, InitialBalance,
                       InitialComment(name_[frame[t].obj]))
    /\ Goto(t, "ctor_unlock")
    /\ UNCHANGED <<ledger, name_, balance_, mutex_, frame, ret, iter, ops, hist>>

user_unlock(t) ==
    /\ pc[t] = "ctor_unlock"
    /\ Unlock(t, frame[t].obj)
    /\ Goto(t, "gc_emplace")
    /\ UNCHANGED <<ledger, name_, balance_, transactions_, cv_waiting, frame,
                   ret, iter, ops, hist>>

\* unordered_map::emplace keeps the element that is there, if there is one.
emplace(map, name, obj) ==
    IF name \in DOMAIN map THEN map ELSE map @@ (name :> obj)

get_or_create_user_emplace(t) ==
    /\ pc[t] = "gc_emplace"
    /\ users_' = emplace(users_, frame[t].name, frame[t].obj)
    /\ Goto(t, "gc_at")
    /\ UNCHANGED <<ledger_mutex, heap, frame, ret, iter, ops, hist>>

get_or_create_user_at(t) ==
    /\ pc[t] = "gc_at"
    /\ frame' = [frame EXCEPT ![t].obj = users_[frame[t].name]]
    /\ Goto(t, "gc_unlock")
    /\ UNCHANGED <<ledger, heap, ret, iter, ops, hist>>

get_or_create_user_return(t) ==
    /\ pc[t] = "gc_unlock"
    /\ ledger_mutex' = NoThread
    /\ Return(t, [kind |-> "user", user |-> frame[t].obj])
    /\ got' = [got EXCEPT ![frame[t].name] = @ \cup {frame[t].obj}]
    /\ UNCHANGED <<users_, heap, iter, ops, it_start, it_made, delivered, called, session,
                   pre>>

(***************************************************************************)
(* user::balance_xts.                                                      *)
(***************************************************************************)
balance_xts_call(t, a) ==
    /\ Call(t, [NoFrame EXCEPT !.op = "balance_xts", !.this = a])
    /\ Goto(t, "bal_lock")
    /\ UNCHANGED <<ledger, heap, iter, hist>>

balance_xts_lock(t) ==
    /\ pc[t] = "bal_lock"
    /\ Lock(t, frame[t].this)
    /\ Goto(t, "bal_read")
    /\ UNCHANGED <<ledger, name_, balance_, transactions_, cv_waiting, frame,
                   ret, iter, ops, hist>>

balance_xts_read(t) ==
    /\ pc[t] = "bal_read"
    /\ ret' = [ret EXCEPT ![t] = [kind |-> "int", int |-> balance_[frame[t].this]]]
    /\ Goto(t, "bal_unlock")
    /\ UNCHANGED <<ledger, heap, frame, iter, ops, hist>>

\* Mutant: balance_xts returns without releasing the mutex.
balance_xts_return_holding(t) ==
    /\ pc[t] = "bal_unlock"
    /\ Return(t, ret[t])
    /\ UNCHANGED <<ledger, heap, iter, ops, hist>>

balance_xts_return(t) ==
    /\ pc[t] = "bal_unlock"
    /\ Unlock(t, frame[t].this)
    /\ Return(t, ret[t])
    /\ UNCHANGED <<ledger, name_, balance_, transactions_, cv_waiting, iter,
                   ops, hist>>

(***************************************************************************)
(* user::transfer.  std::scoped_lock over two mutexes is std::lock, as     *)
(* libstdc++ (since GCC 11), libc++ and the MSVC library implement it:     *)
(* lock one mutex (the first argument first), try_lock the other, and on   *)
(* failure release the first and start again with the mutex that could not *)
(* be taken.                                                               *)
(***************************************************************************)
transfer_call(t, a, counterparty, amount_xts, comment) ==
    /\ Call(t, [NoFrame EXCEPT !.op = "transfer", !.this = a,
                               !.counterparty = counterparty,
                               !.amount_xts = amount_xts, !.comment = comment])
    /\ Goto(t, "tr_check")
    /\ UNCHANGED <<ledger, heap, iter, hist>>

\* Mutant: the sign of the amount is not tested.
transfer_invalid_self_only(this, counterparty, amount_xts) ==
    IF this = counterparty THEN invalid_transfer_error("Self-transfer")
    ELSE NoRet

\* The two argument checks, in the order of the source.
transfer_invalid(this, counterparty, amount_xts) ==
    IF this = counterparty THEN invalid_transfer_error("Self-transfer")
    ELSE IF amount_xts < 0
         THEN invalid_transfer_error("Negative amount, you're lose:(")
         ELSE NoRet

transfer_check(t) ==
    /\ pc[t] = "tr_check"
    /\ LET e == transfer_invalid(frame[t].this, frame[t].counterparty,
                                 frame[t].amount_xts)
       IN  IF e # NoRet
           THEN Return(t, e)
           ELSE Goto(t, "sl_lock") /\ UNCHANGED <<frame, ret>>
    /\ UNCHANGED <<ledger, heap, iter, ops, hist>>

\* Mutants: a transfer that locks one of its two accounts only.
scoped_lock_this_only(this, counterparty) == <<this>>

scoped_lock_counterparty_only(this, counterparty) == <<counterparty>>

\* The mutexes the scoped_lock of transfer is constructed over.
scoped_lock_mutexes(this, counterparty) == <<this, counterparty>>

Held(t) == scoped_lock_mutexes(frame[t].this, frame[t].counterparty)

scoped_lock_lock(t) ==
    /\ pc[t] = "sl_lock"
    /\ Lock(t, Held(t)[frame[t].first + 1])
    /\ IF Len(Held(t)) = 1 THEN Goto(t, "tr_funds") ELSE Goto(t, "sl_try")
    /\ UNCHANGED <<ledger, name_, balance_, transactions_, cv_waiting, frame,
                   ret, iter, ops, hist>>

Other(t) == Held(t)[((frame[t].first + 1) % Len(Held(t))) + 1]

\* Mutant: the result of try_lock is ignored.
scoped_lock_try_unchecked(t) ==
    /\ pc[t] = "sl_try"
    /\ mutex_' = [mutex_ EXCEPT ![Other(t)] = IF @ = NoThread THEN t ELSE @]
    /\ Goto(t, "tr_funds")
    /\ UNCHANGED <<ledger, name_, balance_, transactions_, cv_waiting, frame,
                   ret, iter, ops, hist>>

\* Mutant: the second mutex is taken with lock, not try_lock.
scoped_lock_try_blocking(t) ==
    /\ pc[t] = "sl_try"
    /\ Lock(t, Other(t))
    /\ Goto(t, "tr_funds")
    /\ UNCHANGED <<ledger, name_, balance_, transactions_, cv_waiting, frame,
                   ret, iter, ops, hist>>

scoped_lock_try(t) ==
    /\ pc[t] = "sl_try"
    /\ IF MutexFree(Other(t))
       THEN Lock(t, Other(t)) /\ Goto(t, "tr_funds")
       ELSE Goto(t, "sl_backoff") /\ UNCHANGED mutex_
    /\ UNCHANGED <<ledger, name_, balance_, transactions_, cv_waiting, frame,
                   ret, iter, ops, hist>>

scoped_lock_backoff(t) ==
    /\ pc[t] = "sl_backoff"
    /\ Unlock(t, Held(t)[frame[t].first + 1])
    /\ frame' = [frame EXCEPT ![t].first = (@ + 1) % Len(Held(t))]
    /\ Goto(t, "sl_lock")
    /\ UNCHANGED <<ledger, name_, balance_, transactions_, cv_waiting, ret,
                   iter, ops, hist>>

\* Mutant: the amount is not subtracted before the test for funds.
NewUserAmountKept(balance, amount_xts) == balance

\* Mutant: the whole balance cannot be transferred.
NewUserAmountStrict(balance, amount_xts) == balance - amount_xts - 1

NewUserAmount(balance, amount_xts) == balance - amount_xts

\* new_user_amount, and the throw of not_enough_funds_error.
transfer_funds(t) ==
    /\ pc[t] = "tr_funds"
    /\ LET this == frame[t].this
           to == frame[t].counterparty
           new_user_amount == NewUserAmount(balance_[this], frame[t].amount_xts)
       IN  /\ frame' = [frame EXCEPT ![t].new_user_amount = new_user_amount]
           /\ pre' = [pre EXCEPT ![t] =
                        [valid |-> TRUE,
                         balance |-> <<balance_[this], balance_[to]>>,
                         log |-> <<transactions_[this], transactions_[to]>>]]
           /\ IF new_user_amount < 0
              THEN /\ ret' = [ret EXCEPT ![t] =
                        not_enough_funds_error(balance_[this], frame[t].amount_xts)]
                   /\ Goto(t, "tr_unlock")
              ELSE /\ Goto(t, "tr_debit")
                   /\ UNCHANGED ret
    /\ UNCHANGED <<ledger, heap, iter, ops, got, it_start, it_made, delivered,
                   called, session>>

\* balance_ -= amount_xts
\* Mutant: the amount is not taken from the balance of this account.
transfer_debit_skipped(t) ==
    /\ pc[t] = "tr_debit"
    /\ Goto(t, "tr_debit_log")
    /\ UNCHANGED <<ledger, heap, frame, ret, iter, ops, hist>>

transfer_debit(t) ==
    /\ pc[t] = "tr_debit"
    /\ balance_' = [balance_ EXCEPT ![frame[t].this] = @ - frame[t].amount_xts]
    /\ Goto(t, "tr_debit_log")
    /\ UNCHANGED <<ledger, name_, transactions_, mutex_, cv_waiting, frame,
                   ret, iter, ops, hist>>

\* add_transaction(&counterparty, -amount_xts, comment)
transfer_debit_log(t) ==
    /\ pc[t] = "tr_debit_log"
    /\ add_transaction(frame[t].this, frame[t].counterparty,
                       -frame[t].amount_xts, frame[t].comment)
    /\ Goto(t, "tr_credit")
    /\ UNCHANGED <<ledger, name_, balance_, mutex_, frame, ret, iter, ops, hist>>

\* Mutant: the counterparty's balance is credited with the amount twice.
transfer_credit_twice(t) ==
    /\ pc[t] = "tr_credit"
    /\ balance_' =
           [balance_ EXCEPT ![frame[t].counterparty] = @ + 2 * frame[t].amount_xts]
    /\ Goto(t, "tr_credit_log")
    /\ UNCHANGED <<ledger, name_, transactions_, mutex_, cv_waiting, frame,
                   ret, iter, ops, hist>>

\* counterparty.balance_ += amount_xts
transfer_credit(t) ==
    /\ pc[t] = "tr_credit"
    /\ balance_' =
           [balance_ EXCEPT ![frame[t].counterparty] = @ + frame[t].amount_xts]
    /\ Goto(t, "tr_credit_log")
    /\ UNCHANGED <<ledger, name_, transactions_, mutex_, cv_waiting, frame,
                   ret, iter, ops, hist>>

\* Mutant: the credit entry names the receiving account as its counterparty.
transfer_credit_log_self(t) ==
    /\ pc[t] = "tr_credit_log"
    /\ add_transaction(frame[t].counterparty, frame[t].counterparty,
                       frame[t].amount_xts, frame[t].comment)
    /\ Goto(t, "tr_unlock")
    /\ UNCHANGED <<ledger, name_, balance_, mutex_, frame, ret, iter, ops, hist>>

\* Mutant: the credit entry is put in front of the counterparty's log.
transfer_credit_log_front(t) ==
    /\ pc[t] = "tr_credit_log"
    /\ add_transaction_front(frame[t].counterparty, frame[t].this,
                             frame[t].amount_xts, frame[t].comment)
    /\ Goto(t, "tr_unlock")
    /\ UNCHANGED <<ledger, name_, balance_, mutex_, frame, ret, iter, ops, hist>>

\* counterparty.add_transaction(this, amount_xts, comment)
transfer_credit_log(t) ==
    /\ pc[t] = "tr_credit_log"
    /\ add_transaction(frame[t].counterparty, frame[t].this,
                       frame[t].amount_xts, frame[t].comment)
    /\ Goto(t, "tr_unlock")
    /\ UNCHANGED <<ledger, name_, balance_, mutex_, frame, ret, iter, ops, hist>>

\* ~scoped_lock releases the mutexes in the order of its arguments.
transfer_unlock(t) ==
    /\ pc[t] = "tr_unlock"
    /\ Unlock(t, Held(t)[1])
    /\ IF Len(Held(t)) = 1 THEN Goto(t, "tr_return") ELSE Goto(t, "tr_unlock2")
    /\ UNCHANGED <<ledger, name_, balance_, transactions_, cv_waiting, frame,
                   ret, iter, ops, hist>>

transfer_unlock2(t) ==
    /\ pc[t] = "tr_unlock2"
    /\ Unlock(t, Held(t)[2])
    /\ Goto(t, "tr_return")
    /\ UNCHANGED <<ledger, name_, balance_, transactions_, cv_waiting, frame,
                   ret, iter, ops, hist>>

transfer_return(t) ==
    /\ pc[t] = "tr_return"
    /\ Return(t, IF ret[t] = NoRet THEN [kind |-> "void"] ELSE ret[t])
    /\ pre' = [pre EXCEPT ![t] = NoPre]
    /\ UNCHANGED <<ledger, heap, iter, ops, got, it_start, it_made, delivered,
                   called, session>>

(***************************************************************************)
(* user::snapshot_transactions.  The visitor f reads the account's own     *)
(* vector and balance for as long as it runs: what it reads when it begins *)
(* and when it ends are recorded.                                          *)
(***************************************************************************)
View(a) == [log |-> transactions_[a], balance |-> balance_[a]]

snapshot_transactions_call(t, a) ==
    /\ Call(t, [NoFrame EXCEPT !.op = "snapshot_transactions", !.this = a])
    /\ Goto(t, "snap_lock")
    /\ UNCHANGED <<ledger, heap, iter, hist>>

\* Mutant: the visitor runs without the account's mutex.
snapshot_transactions_lock_skipped(t) ==
    /\ pc[t] = "snap_lock"
    /\ Goto(t, "snap_visit")
    /\ UNCHANGED <<ledger, heap, frame, ret, iter, ops, hist>>

snapshot_transactions_lock(t) ==
    /\ pc[t] = "snap_lock"
    /\ Lock(t, frame[t].this)
    /\ Goto(t, "snap_visit")
    /\ UNCHANGED <<ledger, name_, balance_, transactions_, cv_waiting, frame,
                   ret, iter, ops, hist>>

snapshot_transactions_visit(t) ==
    /\ pc[t] = "snap_visit"
    /\ ret' = [ret EXCEPT ![t] =
                 [kind |-> "visiting", begin |-> View(frame[t].this)]]
    /\ Goto(t, "snap_visited")
    /\ UNCHANGED <<ledger, heap, frame, iter, ops, hist>>

snapshot_transactions_visited(t) ==
    /\ pc[t] = "snap_visited"
    /\ ret' = [ret EXCEPT ![t] =
                 [kind |-> "visited", begin |-> ret[t].begin,
                  end |-> View(frame[t].this)]]
    /\ Goto(t, "snap_iter")
    /\ UNCHANGED <<ledger, heap, frame, iter, ops, hist>>

\* Mutant: the iterator is positioned at the last transaction of the log.
MakeIteratorLast(a) == [user_ |-> a, index_ |-> Len(transactions_[a]) - 1]

\* user_transactions_iterator{this, transactions_.size()}
MakeIterator(a) == [user_ |-> a, index_ |-> Len(transactions_[a])]

\* Thread t has a new iterator object: the copies of its former iterator
\* are copies of an object that is no more.
Made(t, m) ==
    [u \in DOMAIN it_made |->
        IF u = t THEN m
        ELSE IF it_made[u].of = t THEN [it_made[u] EXCEPT !.of = NoThread]
        ELSE it_made[u]]

NewIterator(t, a) ==
    /\ iter' = [iter EXCEPT ![t] = MakeIterator(a)]
    /\ it_start' = [it_start EXCEPT ![t] = MakeIterator(a).index_]
    /\ delivered' = [delivered EXCEPT ![t] = <<>>]

snapshot_transactions_iter(t) ==
    /\ pc[t] = "snap_iter"
    /\ NewIterator(t, frame[t].this)
    /\ it_made' = Made(t, [NoMade EXCEPT !.op = frame[t].op,
                                          !.log = ret[t].end.log])
    /\ Goto(t, "snap_unlock")
    /\ UNCHANGED <<ledger, heap, frame, ret, ops, got, called, session, pre>>

snapshot_transactions_return(t) ==
    /\ pc[t] = "snap_unlock"
    /\ Unlock(t, frame[t].this)
    /\ Return(t, [kind |-> "snapshot", begin |-> ret[t].begin,
                  end |-> ret[t].end, it |-> iter[t]])
    /\ UNCHANGED <<ledger, name_, balance_, transactions_, cv_waiting, iter,
                   ops, hist>>

(***************************************************************************)
(* user::monitor.                                                          *)
(***************************************************************************)
monitor_call(t, a) ==
    /\ Call(t, [NoFrame EXCEPT !.op = "monitor", !.this = a])
    /\ Goto(t, "mon_lock")
    /\ UNCHANGED <<ledger, heap, iter, hist>>

monitor_lock(t) ==
    /\ pc[t] = "mon_lock"
    /\ Lock(t, frame[t].this)
    /\ Goto(t, "mon_iter")
    /\ UNCHANGED <<ledger, name_, balance_, transactions_, cv_waiting, frame,
                   ret, iter, ops, hist>>

monitor_iter(t) ==
    /\ pc[t] = "mon_iter"
    /\ NewIterator(t, frame[t].this)
    /\ it_made' = Made(t, [NoMade EXCEPT !.op = frame[t].op,
                                          !.log = transactions_[frame[t].this]])
    /\ Goto(t, "mon_unlock")
    /\ UNCHANGED <<ledger, heap, frame, ret, ops, got, called, session, pre>>

monitor_return(t) ==
    /\ pc[t] = "mon_unlock"
    /\ Unlock(t, frame[t].this)
    /\ Return(t, [kind |-> "iterator", it |-> iter[t]])
    /\ UNCHANGED <<ledger, name_, balance_, transactions_, cv_waiting, iter,
                   ops, hist>>

(***************************************************************************)
(* user_transactions_iterator::wait_next_transaction.  The wait on the     *)
(* condition variable releases the mutex and blocks; the thread goes on    *)
(* once notify_all has removed it from the waiting threads, or after a     *)
(* spurious wake-up, and then takes the mutex again and tests the          *)
(* predicate again.                                                        *)
(***************************************************************************)
wait_next_transaction_call(t) ==
    /\ iter[t].user_ # nullptr
    /\ Call(t, [NoFrame EXCEPT !.op = "wait_next_transaction",
                               !.this = iter[t].user_])
    /\ Goto(t, "wn_lock")
    /\ UNCHANGED <<ledger, heap, iter, hist>>

wait_next_transaction_lock(t) ==
    /\ pc[t] = "wn_lock"
    /\ Lock(t, iter[t].user_)
    /\ Goto(t, "wn_pred")
    /\ UNCHANGED <<ledger, name_, balance_, transactions_, cv_waiting, frame,
                   ret, iter, ops, hist>>

\* Mutant: the wait blocks without releasing the mutex.
wait_next_transaction_pred_holding(t) ==
    /\ pc[t] = "wn_pred"
    /\ IF iter[t].index_ < Len(transactions_[iter[t].user_])
       THEN /\ Goto(t, "wn_get")
            /\ UNCHANGED cv_waiting
       ELSE /\ cv_waiting' = [cv_waiting EXCEPT ![iter[t].user_] = @ \cup {t}]
            /\ Goto(t, "wn_wait")
    /\ UNCHANGED <<ledger, name_, balance_, transactions_, mutex_, frame, ret,
                   iter, ops, hist>>

\* The predicate of the wait: index_ < user_->transactions_.size()
\* Mutant: the predicate is satisfied at the end of the log as well.
WaitPredicateAtEnd(it) == it.index_ <= Len(transactions_[it.user_])

WaitPredicate(it) == it.index_ < Len(transactions_[it.user_])

wait_next_transaction_pred(t) ==
    /\ pc[t] = "wn_pred"
    /\ IF WaitPredicate(iter[t])
       THEN /\ Goto(t, "wn_get")
            /\ UNCHANGED <<mutex_, cv_waiting>>
       ELSE /\ Unlock(t, iter[t].user_)
            /\ cv_waiting' = [cv_waiting EXCEPT ![iter[t].user_] = @ \cup {t}]
            /\ Goto(t, "wn_wait")
    /\ UNCHANGED <<ledger, name_, balance_, transactions_, frame, ret, iter,
                   ops, hist>>

condition_variable_spurious(t) ==
    /\ pc[t] = "wn_wait"
    /\ t \in cv_waiting[iter[t].user_]
    /\ cv_waiting' = [cv_waiting EXCEPT ![iter[t].user_] = @ \ {t}]
    /\ UNCHANGED <<ledger, name_, balance_, transactions_, mutex_, pc, frame,
                   ret, iter, ops, hist>>

condition_variable_wake(t) ==
    /\ pc[t] = "wn_wait"
    /\ t \notin cv_waiting[iter[t].user_]
    /\ Lock(t, iter[t].user_)
    /\ Goto(t, "wn_pred")
    /\ UNCHANGED <<ledger, name_, balance_, transactions_, cv_waiting, frame,
                   ret, iter, ops, hist>>

\* return user_->transactions_[index_++]
NextTransaction(it) == transactions_[it.user_][it.index_ + 1]

\* Mutant: index_ is not incremented.
AdvanceNot(it) == it

\* Mutant: the position is shared by the iterators of an account.
wait_next_transaction_get_shared(t) ==
    /\ pc[t] = "wn_get"
    /\ ret' = [ret EXCEPT ![t] =
                 [kind |-> "transaction",
                  transaction |-> transactions_[iter[t].user_][iter[t].index_ + 1]]]
    /\ delivered' =
           [delivered EXCEPT ![t] =
               Append(@, transactions_[iter[t].user_][iter[t].index_ + 1])]
    /\ iter' = [u \in DOMAIN iter |->
                   IF iter[u].user_ = iter[t].user_
                   THEN [iter[u] EXCEPT !.index_ = iter[t].index_ + 1]
                   ELSE iter[u]]
    /\ pc' = [pc EXCEPT ![t] = "wn_unlock"]
    /\ UNCHANGED <<ledger, heap, frame, ops, got, it_start, it_made, called, session,
                   pre>>

Advance(it) == [it EXCEPT !.index_ = @ + 1]

wait_next_transaction_get(t) ==
    /\ pc[t] = "wn_get"
    /\ ret' = [ret EXCEPT ![t] =
                 [kind |-> "transaction", transaction |-> NextTransaction(iter[t])]]
    /\ delivered' = [delivered EXCEPT ![t] = Append(@, NextTransaction(iter[t]))]
    /\ iter' = [iter EXCEPT ![t] = Advance(@)]
    /\ Goto(t, "wn_unlock")
    /\ UNCHANGED <<ledger, heap, frame, ops, got, it_start, it_made, called, session,
                   pre>>

wait_next_transaction_return(t) ==
    /\ pc[t] = "wn_unlock"
    /\ Unlock(t, iter[t].user_)
    /\ Return(t, ret[t])
    /\ UNCHANGED <<ledger, name_, balance_, transactions_, cv_waiting, iter,
                   ops, hist>>

(***************************************************************************)
(* The threads: every thread calls any member function on any account of   *)
(* the ledger, with any argument, and executes it statement by statement.  *)
(***************************************************************************)
CallAny(t) ==
    \/ \E name \in Names : get_or_create_user_call(t, name)
    \/ \E a \in Accounts : balance_xts_call(t, a)
    \/ \E a \in Accounts, b \in Accounts, x \in Amounts, c \in Comments :
           transfer_call(t, a, b, x, c)
    \/ \E a \in Accounts : snapshot_transactions_call(t, a)
    \/ \E a \in Accounts : monitor_call(t, a)
    \/ wait_next_transaction_call(t)

get_or_create_user(t) ==
    \/ get_or_create_user_lock(t)
    \/ get_or_create_user_contains(t)
    \/ user_init(t)
    \/ user_lock(t)
    \/ user_add_transaction(t)
    \/ user_unlock(t)
    \/ get_or_create_user_emplace(t)
    \/ get_or_create_user_at(t)
    \/ get_or_create_user_return(t)

balance_xts(t) ==
    \/ balance_xts_lock(t)
    \/ balance_xts_read(t)
    \/ balance_xts_return(t)

transfer(t) ==
    \/ transfer_check(t)
    \/ scoped_lock_lock(t)
    \/ scoped_lock_try(t)
    \/ scoped_lock_backoff(t)
    \/ transfer_funds(t)
    \/ transfer_debit(t)
    \/ transfer_debit_log(t)
    \/ transfer_credit(t)
    \/ transfer_credit_log(t)
    \/ transfer_unlock(t)
    \/ transfer_unlock2(t)
    \/ transfer_return(t)

snapshot_transactions(t) ==
    \/ snapshot_transactions_lock(t)
    \/ snapshot_transactions_visit(t)
    \/ snapshot_transactions_visited(t)
    \/ snapshot_transactions_iter(t)
    \/ snapshot_transactions_return(t)

monitor(t) ==
    \/ monitor_lock(t)
    \/ monitor_iter(t)
    \/ monitor_return(t)

\* The steps of wait_next_transaction the thread itself takes.
wait_next_transaction_run(t) ==
    \/ wait_next_transaction_lock(t)
    \/ wait_next_transaction_pred(t)
    \/ condition_variable_wake(t)
    \/ wait_next_transaction_get(t)
    \/ wait_next_transaction_return(t)

wait_next_transaction(t) ==
    \/ wait_next_transaction_run(t)
    \/ condition_variable_spurious(t)

\* What a thread that is in a call does by itself.
Run(t) ==
    \/ get_or_create_user(t)
    \/ balance_xts(t)
    \/ transfer(t)
    \/ snapshot_transactions(t)
    \/ monitor(t)
    \/ wait_next_transaction_run(t)

Step(t) ==
    \/ get_or_create_user(t)
    \/ balance_xts(t)
    \/ transfer(t)
    \/ snapshot_transactions(t)
    \/ monitor(t)
    \/ wait_next_transaction(t)

Next == \E t \in 1..NumThreads : CallAny(t) \/ Step(t)

Spec == Init /\ [][Next]_vars

(***************************************************************************)
(* The ledger after one thread has called get_or_create_user for every     *)
(* name of a sequence, one after the other.                                *)
(***************************************************************************)
Opened(names) ==
    /\ users_ = [n \in {names[i] : i \in DOMAIN names} |->
                    CHOOSE i \in DOMAIN names : names[i] = n]
    /\ ledger_mutex = NoThread
    /\ name_ = names
    /\ balance_ = [i \in DOMAIN names |-> InitialBalance]
    /\ transactions_ =
           [i \in DOMAIN names |->
               <<transaction(nullptr, InitialBalance, InitialComment(names[i]))>>]
    /\ mutex_ = [i \in DOMAIN names |-> NoThread]
    /\ cv_waiting = [i \in DOMAIN names |-> {}]
    /\ got = [n \in Names \cup {names[i] : i \in DOMAIN names} |->
                 IF n \in {names[i] : i \in DOMAIN names}
                 THEN {CHOOSE i \in DOMAIN names : names[i] = n} ELSE {}]

Started(n) ==
    /\ pc = [t \in 1..n |-> "idle"]
    /\ frame = [t \in 1..n |-> NoFrame]
    /\ ret = [t \in 1..n |-> NoRet]
    /\ iter = [t \in 1..n |-> NoIter]
    /\ ops = 0
    /\ it_start = [t \in 1..n |-> 0]
    /\ it_made = [t \in 1..n |-> NoMade]
    /\ delivered = [t \in 1..n |-> <<>>]
    /\ called = [t \in 1..n |-> <<>>]
    /\ session = [t \in 1..n |-> NoSession]
    /\ pre = [t \in 1..n |-> NoPre]

(***************************************************************************)
(* Fairness.  A thread that is in a call keeps executing it; a thread      *)
(* that is again and again able to take a mutex (in a blocking lock, in    *)
(* the wake-up of a wait, or in the try_lock of std::lock) takes it in the *)
(* end.  Nothing makes a thread start a call, and nothing makes a          *)
(* spurious wake-up happen.                                                *)
(***************************************************************************)
scoped_lock_acquire(t) ==
    /\ pc[t] = "sl_try"
    /\ MutexFree(Other(t))
    /\ scoped_lock_try(t)

Fairness(n) ==
    \A t \in 1..n :
        /\ SF_vars(Run(t))
        /\ SF_vars(scoped_lock_acquire(t))

\* Every call on the ledger, fairly scheduled.
FairSpec == Spec /\ Fairness(NumThreads)

(***************************************************************************)
(* Cursors: threads on the accounts of Alice and Bob, which exist, calling *)
(* transfer (of 60, between two accounts), monitor and                     *)
(* wait_next_transaction.                                                  *)
(***************************************************************************)
InitCursor == Opened(<<"Alice", "Bob">>) /\ Started(NumThreads)

CallCursor(t) ==
    \/ \E a \in Accounts : \E b \in Accounts \ {a} : \E c \in Comments :
           transfer_call(t, a, b, 60, c)
    \/ \E a \in Accounts : monitor_call(t, a)
    \/ wait_next_transaction_call(t)

StepCursor(t) ==
    \/ transfer(t)
    \/ monitor(t)
    \/ wait_next_transaction(t)

NextCursor == \E t \in 1..NumThreads : CallCursor(t) \/ StepCursor(t)

SpecCursor == InitCursor /\ [][NextCursor]_vars

FairCursor == SpecCursor /\ Fairness(NumThreads)

(***************************************************************************)
(* Transfers only: the accounts of Alice, Bob and Carol exist, and there   *)
(* is one thread per account, which transfers from its account to any      *)
(* other: two threads may transfer in opposite directions between two      *)
(* accounts, and three around the ring.                                    *)
(***************************************************************************)
Ring == <<"Alice", "Bob", "Carol">>

InitRing == Opened(Ring) /\ Started(Len(Ring))

CallRing(t) ==
    /\ ops < MaxTransfers
    /\ \E b \in Accounts \ {t} : \E c \in Comments :
           transfer_call(t, t, b, 60, c)

NextRing == \E t \in 1..Len(Ring) : CallRing(t) \/ transfer(t)

SpecRing == InitRing /\ [][NextRing]_vars

FairRing == SpecRing /\ Fairness(Len(Ring))

(***************************************************************************)
(* The exchange of the tests "Multiple producers, no consumers" and        *)
(* "Single producer, single consumer": threads on the accounts of Alice    *)
(* and Bob transfer 10 from one to the other and read balances.  Which     *)
(* transfers a thread has called is recorded, so that a property can speak *)
(* of the threads that alternate the two directions as the tests' loops    *)
(* do.                                                                     *)
(***************************************************************************)
ExchangeAmount == 10

InitExchange == Opened(<<"Alice", "Bob">>) /\ Started(NumThreads)

exchange_call(t, a, b) ==
    /\ Call(t, [NoFrame EXCEPT !.op = "transfer", !.this = a,
                               !.counterparty = b,
                               !.amount_xts = ExchangeAmount,
                               !.comment = "exchange"])
    /\ Goto(t, "tr_check")
    /\ called' = [called EXCEPT ![t] = Append(@, <<a, b>>)]
    /\ UNCHANGED <<ledger, heap, iter, got, it_start, it_made, delivered,
                   session, pre>>

CallExchange(t) ==
    \/ \E a \in Accounts : \E b \in Accounts \ {a} : exchange_call(t, a, b)
    \/ \E a \in Accounts : balance_xts_call(t, a)

StepExchange(t) ==
    \/ transfer(t)
    \/ balance_xts(t)

NextExchange == \E t \in 1..NumThreads : CallExchange(t) \/ StepExchange(t)

SpecExchange == InitExchange /\ [][NextExchange]_vars

(***************************************************************************)
(* Copies of iterators.  user_transactions_iterator has the implicit copy  *)
(* constructor and copy assignment: the copy has the user_ and the index_  *)
(* of the original.  A thread copies the iterator of another thread while  *)
(* neither uses its own (an iterator is not to be used by two threads at   *)
(* once).                                                                  *)
(***************************************************************************)
user_transactions_iterator_copy(t, u) ==
    /\ t # u
    /\ pc[t] = "idle"
    /\ pc[u] = "idle"
    /\ iter[t].user_ # nullptr
    /\ ops < MaxOps
    /\ ops' = ops + 1
    /\ iter' = [iter EXCEPT ![u] = iter[t]]
    /\ it_start' = [it_start EXCEPT ![u] = iter[t].index_]
    /\ delivered' = [delivered EXCEPT ![u] = <<>>]
    /\ it_made' = Made(u, [op |-> "copy",
                           log |-> it_made[t].log \o delivered[t],
                           of |-> t, at |-> Len(delivered[t])])
    /\ UNCHANGED <<ledger, heap, pc, frame, ret, got, called, session, pre>>

NextCopies ==
    \E t \in 1..NumThreads :
        \/ CallCursor(t)
        \/ StepCursor(t)
        \/ \E u \in 1..NumThreads : user_transactions_iterator_copy(t, u)

SpecCopies == InitCursor /\ [][NextCopies]_vars

(***************************************************************************)
(* Transfers at the limits of what transfer accepts: a negative amount,    *)
(* nothing, the whole opening balance and one unit more, from Alice to     *)
(* Bob and from Alice to herself, with iterators made and waited on.       *)
(***************************************************************************)
LimitAmounts == {-1, 0, InitialBalance, InitialBalance + 1}

CallLimits(t) ==
    \/ \E b \in Accounts, x \in LimitAmounts, c \in Comments :
           transfer_call(t, users_["Alice"], b, x, c)
    \/ \E a \in Accounts : monitor_call(t, a)
    \/ wait_next_transaction_call(t)

NextLimits == \E t \in 1..NumThreads : CallLimits(t) \/ StepCursor(t)

SpecLimits == InitCursor /\ [][NextLimits]_vars

(***************************************************************************)
(* The server (src/bank_server.cpp).  Every connection has a thread that   *)
(* runs client_connection::run: after authentication, which sets user_, it *)
(* reads commands and executes them by calls on the ledger.  Modelled are  *)
(* the commands transactions, monitor and transfer; what a connection      *)
(* writes to its client is recorded.  The connections are connections of   *)
(* Alice, after authentication; Bob's account is made by the first         *)
(* transfer to Bob.                                                        *)
(*                                                                         *)
(* The count of a listing is a std::size_t of 64 bits, kept here as four   *)
(* limbs of 16 bits, the least significant first, so that the arithmetic   *)
(* of get_transactions has the width it has in the program: the            *)
(* difference size() - n is taken modulo 2^64, and the cast to int keeps   *)
(* its low 32 bits as a two's complement number.                           *)
(***************************************************************************)
size_t(k) == <<k % 2^16, k \div 2^16, 0, 0>>

\* a - b in std::size_t
size_t_minus(a, b) ==
    LET d1 == a[1] - b[1]
        d2 == a[2] - b[2] - (IF d1 < 0 THEN 1 ELSE 0)
        d3 == a[3] - b[3] - (IF d2 < 0 THEN 1 ELSE 0)
        d4 == a[4] - b[4] - (IF d3 < 0 THEN 1 ELSE 0)
    IN  <<d1 % 2^16, d2 % 2^16, d3 % 2^16, d4 % 2^16>>

\* static_cast<int>(x) of a std::size_t x
static_cast_int(x) ==
    IF x[2] >= 2^15 THEN (x[2] - 2^16) * 2^16 + x[1] ELSE x[2] * 2^16 + x[1]

\* The amounts sent with transfer.
ServerAmounts == {-1, 60, InitialBalance + 1}

\* The counts sent with monitor.
Counts == {size_t(0), size_t(2)}

\* The counts sent with transactions: 0, 1, 2^32 and 2^64 - 1.
ListingCounts ==
    {size_t(0), size_t(1), <<0, 0, 1, 0>>,
     <<2^16 - 1, 2^16 - 1, 2^16 - 1, 2^16 - 1>>}

Connected(n) ==
    /\ pc = [t \in 1..n |-> "idle"]
    /\ frame = [t \in 1..n |-> NoFrame]
    /\ ret = [t \in 1..n |-> NoRet]
    /\ iter = [t \in 1..n |-> NoIter]
    /\ ops = 0
    /\ it_start = [t \in 1..n |-> 0]
    /\ it_made = [t \in 1..n |-> NoMade]
    /\ delivered = [t \in 1..n |-> <<>>]
    /\ called = [t \in 1..n |-> <<>>]
    /\ session = [t \in 1..n |->
                     [NoSession EXCEPT !.at = "run", !.user_ = users_["Alice"]]]
    /\ pre = [t \in 1..n |-> NoPre]

InitServer == Opened(<<"Alice">>) /\ Connected(NumThreads)

\* A call made by a connection.
Invoke(t, f, label) ==
    /\ Call(t, f)
    /\ Goto(t, label)
    /\ UNCHANGED <<ledger, heap, iter, got, it_start, it_made, delivered,
                   called, pre>>

At(t, place) == session' = [session EXCEPT ![t].at = place]

\* One line of a listing or of the stream.
Line(tr) ==
    <<IF tr.counterparty = nullptr THEN "-" ELSE name_[tr.counterparty],
      tr.balance_delta_xts, tr.comment>>

\* std::max(static_cast<int>(transactions.size() - n), 0)
StartIndex(size, n) ==
    LET start == static_cast_int(size_t_minus(size_t(size), n))
    IN  IF start > 0 THEN start ELSE 0

\* What the visitor of get_transactions writes for a log and a balance.
Listing(log, balance, n) ==
    [lines |-> [i \in 1..(Len(log) - StartIndex(Len(log), n)) |->
                   Line(log[StartIndex(Len(log), n) + i])],
     balance |-> balance]

\* The command transactions <n>: get_transactions(n).
client_connection_transactions(t, n) ==
    /\ session[t].at = "run"
    /\ Invoke(t, [NoFrame EXCEPT !.op = "snapshot_transactions",
                                 !.this = session[t].user_], "snap_lock")
    /\ session' = [session EXCEPT ![t].at = "transactions", ![t].n = n,
                                  ![t].listed = <<>>, ![t].listing = <<>>]

\* get_transactions has written the listing; the next command is read.
client_connection_transactions_written(t) ==
    /\ session[t].at = "transactions"
    /\ pc[t] = "idle"
    /\ ret[t].kind = "snapshot"
    /\ session' = [session EXCEPT
                      ![t].at = "run",
                      ![t].listed = ret[t].begin.log,
                      ![t].listing = Listing(ret[t].begin.log,
                                             ret[t].begin.balance, session[t].n)]
    /\ UNCHANGED <<ledger, heap, pc, frame, ret, iter, ops, got, it_start,
                   it_made, delivered, called, pre>>

\* The command monitor <n>: get_transactions(n) first.
client_connection_monitor(t, n) ==
    /\ session[t].at = "run"
    /\ Invoke(t, [NoFrame EXCEPT !.op = "snapshot_transactions",
                                 !.this = session[t].user_], "snap_lock")
    /\ session' = [session EXCEPT ![t].at = "get_transactions", ![t].n = n,
                                  ![t].listed = <<>>, ![t].listing = <<>>]

\* get_transactions has written the listing; auto it = user_->monitor()
client_connection_monitor_it(t) ==
    /\ session[t].at = "get_transactions"
    /\ ret[t].kind = "snapshot"
    /\ Invoke(t, [NoFrame EXCEPT !.op = "monitor", !.this = session[t].user_],
              "mon_lock")
    /\ session' = [session EXCEPT
                      ![t].at = "monitor",
                      ![t].listed = ret[t].begin.log,
                      ![t].listing = Listing(ret[t].begin.log,
                                             ret[t].begin.balance, session[t].n)]

\* while (true) { ... it.wait_next_transaction() ... }
client_connection_monitor_wait(t) ==
    /\ session[t].at \in {"monitor", "pushed"}
    /\ Invoke(t, [NoFrame EXCEPT !.op = "wait_next_transaction",
                                 !.this = iter[t].user_], "wn_lock")
    /\ At(t, "wait_next_transaction")

\* The transaction wait_next_transaction returned is written to the client.
client_connection_monitor_push(t) ==
    /\ session[t].at = "wait_next_transaction"
    /\ pc[t] = "idle"
    /\ ret[t].kind = "transaction"
    /\ session' = [session EXCEPT ![t].at = "pushed",
                                  ![t].pushed = Append(@, Line(ret[t].transaction))]
    /\ UNCHANGED <<ledger, heap, pc, frame, ret, iter, ops, got, it_start,
                   it_made, delivered, called, pre>>

\* The command transfer <counterparty> <amount> <comment>:
\* auto &to = ledger_.get_or_create_user(counterparty)
client_connection_transfer(t, counterparty, amount, comment) ==
    /\ session[t].at = "run"
    /\ Invoke(t, [NoFrame EXCEPT !.op = "get_or_create_user",
                                 !.name = counterparty], "gc_lock")
    /\ session' = [session EXCEPT ![t].at = "get_or_create_user",
                                  ![t].counterparty = counterparty,
                                  ![t].amount = amount, ![t].comment = comment]

\* user_->transfer(to, amount, comment)
client_connection_transfer_to(t) ==
    /\ session[t].at = "get_or_create_user"
    /\ ret[t].kind = "user"
    /\ Invoke(t, [NoFrame EXCEPT !.op = "transfer", !.this = session[t].user_,
                                 !.counterparty = ret[t].user,
                                 !.amount_xts = session[t].amount,
                                 !.comment = session[t].comment], "tr_check")
    /\ At(t, "transfer")

\* Mutant: the transfer_error is not caught, and ends the connection.
client_connection_transfer_reply_uncaught(t) ==
    /\ session[t].at = "transfer"
    /\ pc[t] = "idle"
    /\ session' = [session EXCEPT
                      ![t].at = IF ret[t].kind = "void" THEN "run" ELSE "closed",
                      ![t].reply = IF ret[t].kind = "void" THEN "OK"
                                   ELSE ret[t].what]
    /\ UNCHANGED <<ledger, heap, pc, frame, ret, iter, ops, got, it_start,
                   it_made, delivered, called, pre>>

\* "OK", or what() of the transfer_error that was caught.
client_connection_transfer_reply(t) ==
    /\ session[t].at = "transfer"
    /\ pc[t] = "idle"
    /\ session' = [session EXCEPT
                      ![t].at = "run",
                      ![t].reply = IF ret[t].kind = "void" THEN "OK"
                                   ELSE ret[t].what]
    /\ UNCHANGED <<ledger, heap, pc, frame, ret, iter, ops, got, it_start,
                   it_made, delivered, called, pre>>

client_connection(t) ==
    \/ \E n \in ListingCounts : client_connection_transactions(t, n)
    \/ client_connection_transactions_written(t)
    \/ \E n \in Counts : client_connection_monitor(t, n)
    \/ client_connection_monitor_it(t)
    \/ client_connection_monitor_wait(t)
    \/ client_connection_monitor_push(t)
    \/ \E name \in Names : \E x \in ServerAmounts : \E c \in Comments :
           client_connection_transfer(t, name, x, c)
    \/ client_connection_transfer_to(t)
    \/ client_connection_transfer_reply(t)

StepServer(t) ==
    \/ get_or_create_user(t)
    \/ transfer(t)
    \/ snapshot_transactions(t)
    \/ monitor(t)
    \/ wait_next_transaction(t)

NextServer == \E t \in 1..NumThreads : client_connection(t) \/ StepServer(t)

SpecServer == InitServer /\ [][NextServer]_vars

(***************************************************************************)
(* Notions the properties share.                                           *)
(***************************************************************************)
CtorPcs == {"ctor_lock", "ctor_add", "ctor_unlock"}

\* The user objects whose constructor has returned.
Constructed ==
    {a \in Users : \A t \in Threads : ~(pc[t] \in CtorPcs /\ frame[t].obj = a)}

InTransfer(t) == frame[t].op = "transfer"

\* A thread inside transfer owns the mutex of account a.
TransferHolds(a) == mutex_[a] # NoThread /\ InTransfer(mutex_[a])

\* The statement a thread executes next reads the account under its mutex.
ObserverPcs ==
    {"bal_read", "snap_visit", "snap_visited", "snap_iter", "mon_iter",
     "wn_pred", "wn_get"}

Observes(t, a) == pc[t] \in ObserverPcs /\ frame[t].this = a

Prefixes(log) == {SubSeq(log, 1, k) : k \in 0..Len(log)}

Count(log, e) == Cardinality({i \in DOMAIN log : log[i] = e})

\* The entry the other account's log holds for the same transfer.
Mirror(a, e) == transaction(a, -e.balance_delta_xts, e.comment)

\* A transfer touching account a has written part of its four updates.
HalfApplied(a) ==
    \E u \in Threads :
        /\ InTransfer(u)
        /\ a \in {frame[u].this, frame[u].counterparty}
        /\ pc[u] \in {"tr_debit_log", "tr_credit", "tr_credit_log"}

(***************************************************************************)
(* C1: for every constructed account whose mutex no transfer holds, in     *)
(* particular one that balance_xts or snapshot_transactions reads, the     *)
(* balance equals the sum of the deltas of its transaction log.            *)
(***************************************************************************)
C1_BalanceIsSumOfLog ==
    \A a \in Constructed :
        ~TransferHolds(a) => balance_[a] = SumDeltas(transactions_[a])

C1_Witness ==
    \E t \in Threads :
        /\ pc[t] = "bal_read"
        /\ Len(transactions_[frame[t].this]) >= 2
        /\ balance_[frame[t].this] # InitialBalance

(***************************************************************************)
(* C2: no balance is ever negative, and the running sum of the deltas over *)
(* every prefix of every log is never negative, in every state of every    *)
(* interleaving.                                                           *)
(***************************************************************************)
C2_NeverNegative ==
    \A a \in Users :
        /\ balance_[a] >= 0
        /\ \A p \in Prefixes(transactions_[a]) : SumDeltas(p) >= 0

C2_Witness ==
    \E t \in Threads, a \in Users :
        /\ ret[t].kind = "not_enough_funds_error"
        /\ balance_[a] < InitialBalance
        /\ Len(transactions_[a]) >= 2

(***************************************************************************)
(* C3: when a thread reads an account under its mutex (balance_xts,        *)
(* snapshot_transactions, monitor, wait_next_transaction), every transfer  *)
(* entry of the account's log has its mirror entry in the counterparty's   *)
(* log, and no transfer touching the account is half applied: the debit is *)
(* never seen without the credit, nor the credit without the debit.        *)
(***************************************************************************)
C3_TransferHalvesAtomic ==
    \A t \in Threads, a \in Users :
        Observes(t, a) =>
            /\ ~HalfApplied(a)
            /\ \A i \in DOMAIN transactions_[a] :
                   LET e == transactions_[a][i]
                   IN  e.counterparty # nullptr =>
                           Count(transactions_[e.counterparty], Mirror(a, e))
                               = Count(transactions_[a], e)

C3_Witness ==
    \E t \in Threads, u \in Threads :
        /\ Observes(t, frame[t].this)
        /\ Len(transactions_[frame[t].this]) >= 2
        /\ InTransfer(u)
        /\ pc[u] \in {"tr_unlock2", "sl_lock", "sl_try"}
        /\ frame[t].this \in {frame[u].this, frame[u].counterparty}

(***************************************************************************)
(* C7: for every name at most one user object is ever constructed, every   *)
(* get_or_create_user call with that name returns that object, and it is   *)
(* the one the ledger maps the name to.                                    *)
(***************************************************************************)
C7_OneAccountPerName ==
    \A n \in Names :
        /\ Cardinality({a \in Users : name_[a] = n}) <= 1
        /\ Cardinality(got[n]) <= 1
        /\ got[n] # {} => n \in DOMAIN users_ /\ got[n] = {users_[n]}
        /\ n \in DOMAIN users_ => name_[users_[n]] = n

C7_Witness ==
    \E t \in Threads, u \in Threads :
        /\ t # u
        /\ ret[t].kind = "user"
        /\ pc[u] = "gc_unlock"
        /\ frame[u].obj = ret[t].user
        /\ Cardinality(DOMAIN users_) = 2

(***************************************************************************)
(* C8: every account of the ledger, and so every account returned by       *)
(* get_or_create_user, has a log that begins with the opening transaction  *)
(* (no counterparty, +100, "Initial deposit for <name>"); an account that  *)
(* has taken part in no transfer has balance 100 and exactly that log.     *)
(***************************************************************************)
OpeningTransaction(a) ==
    [counterparty |-> nullptr, balance_delta_xts |-> 100,
     comment |-> "Initial deposit for " \o name_[a]]

\* Account a is the source or the destination of a transfer that passed the
\* test for funds and has written, or of an entry of some log.
TookPart(a) ==
    \/ \E u \in Threads :
           /\ InTransfer(u)
           /\ a \in {frame[u].this, frame[u].counterparty}
           /\ pc[u] \in {"tr_debit_log", "tr_credit", "tr_credit_log",
                         "tr_unlock", "tr_unlock2", "tr_return"}
           /\ ret[u] = NoRet
    \/ \E i \in DOMAIN transactions_[a] : transactions_[a][i].counterparty # nullptr
    \/ \E b \in Users : \E i \in DOMAIN transactions_[b] :
           transactions_[b][i].counterparty = a

C8_OpeningState ==
    /\ \A t \in Threads : ret[t].kind = "user" => ret[t].user \in Accounts
    /\ \A a \in Accounts :
           /\ Len(transactions_[a]) >= 1
           /\ transactions_[a][1] = OpeningTransaction(a)
           /\ ~TookPart(a) =>
                  /\ balance_[a] = 100
                  /\ transactions_[a] = <<OpeningTransaction(a)>>

C8_Witness ==
    \E t \in Threads, u \in Threads :
        /\ pc[t] = "snap_visit"
        /\ ~TookPart(frame[t].this)
        /\ ret[u].kind = "not_enough_funds_error"

(***************************************************************************)
(* C9: a step of a thread inside transfer changes neither the accounts of  *)
(* the ledger nor the balance or log of an account other than its source   *)
(* and destination; when it has written the last of its four updates, the  *)
(* source balance is the balance it had when both mutexes were taken less  *)
(* the amount, the destination balance is that plus the amount, and each   *)
(* log is the log it was with exactly one entry appended: (destination,    *)
(* -amount, comment) for the source, (source, +amount, comment) for the    *)
(* destination; the steps that follow write nothing.                       *)
(***************************************************************************)
StepOf(t) == pc'[t] # pc[t]

C9_Step(t) ==
    LET s == frame[t].this
        d == frame[t].counterparty
        x == frame[t].amount_xts
        c == frame[t].comment
    IN  /\ users_' = users_
        /\ name_' = name_
        /\ \A a \in Users \ {s, d} :
               balance_'[a] = balance_[a] /\ transactions_'[a] = transactions_[a]
        /\ pc[t] = "tr_credit_log" =>
               /\ balance_'[s] = pre[t].balance[1] - x
               /\ balance_'[d] = pre[t].balance[2] + x
               /\ transactions_'[s] =
                      Append(pre[t].log[1],
                             [counterparty |-> d, balance_delta_xts |-> -x,
                              comment |-> c])
               /\ transactions_'[d] =
                      Append(pre[t].log[2],
                             [counterparty |-> s, balance_delta_xts |-> x,
                              comment |-> c])
        /\ pc[t] \in {"tr_unlock", "tr_unlock2", "tr_return"} =>
               balance_' = balance_ /\ transactions_' = transactions_
        /\ pc[t] = "tr_return" /\ ret[t] = NoRet => ret'[t].kind = "void"

C9_TransferEffect ==
    [][\A t \in Threads : InTransfer(t) /\ StepOf(t) => C9_Step(t)]_vars

C9_Witness ==
    \E t \in Threads :
        /\ pc[t] = "tr_return"
        /\ ret[t] = NoRet
        /\ frame[t].amount_xts > 0
        /\ balance_[frame[t].counterparty] < InitialBalance

(***************************************************************************)
(* C10: the test for funds is made with both mutexes held; when the amount *)
(* exceeds the source balance read there, the transfer throws              *)
(* not_enough_funds_error with the message "Not enough funds: <balance>    *)
(* XTS available, <amount> XTS requested" for exactly that balance and     *)
(* amount, and no step of the failing call, before or after the throw,     *)
(* changes any balance or log.                                             *)
(***************************************************************************)
DigitChar(d) ==
    CASE d = 0 -> "0" [] d = 1 -> "1" [] d = 2 -> "2" [] d = 3 -> "3"
      [] d = 4 -> "4" [] d = 5 -> "5" [] d = 6 -> "6" [] d = 7 -> "7"
      [] d = 8 -> "8" [] d = 9 -> "9"

RECURSIVE Decimal(_)
Decimal(n) ==
    IF n \div 10 = 0 THEN DigitChar(n)
    ELSE Decimal(n \div 10) \o DigitChar(n % 10)

C10_Step(t) ==
    LET s == frame[t].this
        d == frame[t].counterparty
        x == frame[t].amount_xts
    IN  /\ pc[t] = "tr_funds" =>
               /\ mutex_[s] = t /\ mutex_[d] = t
               /\ IF x > balance_[s]
                  THEN /\ ret'[t] =
                              [kind |-> "not_enough_funds_error",
                               what |-> "Not enough funds: " \o Decimal(balance_[s])
                                            \o " XTS available, " \o Decimal(x)
                                            \o " XTS requested"]
                       /\ pc'[t] = "tr_unlock"
                  ELSE ret'[t] = NoRet /\ pc'[t] = "tr_debit"
        /\ pc[t] \in {"tr_check", "sl_lock", "sl_try", "sl_backoff", "tr_funds"} =>
               balance_' = balance_ /\ transactions_' = transactions_
        /\ ret[t].kind = "not_enough_funds_error" =>
               /\ balance_' = balance_ /\ transactions_' = transactions_
               /\ ret'[t] = ret[t]

C10_NotEnoughFunds ==
    [][\A t \in Threads : InTransfer(t) /\ StepOf(t) => C10_Step(t)]_vars

C10_Witness ==
    \E t \in Threads :
        /\ pc[t] = "idle"
        /\ ret[t] = [kind |-> "not_enough_funds_error",
                     what |-> "Not enough funds: 40 XTS available, 60 XTS requested"]

(***************************************************************************)
(* C4: concurrent transfers do not deadlock.  No state is reached in which *)
(* every thread that is inside transfer owns the mutex of one account and  *)
(* cannot take its next step because it waits for another; and under fair  *)
(* scheduling every transfer call returns.                                 *)
(***************************************************************************)
HoldsOne(t) == \E a \in Users : mutex_[a] = t

Deadlocked ==
    /\ \E t \in Threads : InTransfer(t)
    /\ \A t \in Threads : InTransfer(t) => HoldsOne(t) /\ ~ENABLED transfer(t)

\* The threads make finitely many calls, so that every call returns exactly
\* if again and again no thread is inside a call.
AllReturned == \A t \in Threads : pc[t] = "idle"

C5_CursorDelivers ==
    \A t \in Threads :
        iter[t].user_ # nullptr =>
            /\ iter[t].index_ = it_start[t] + Len(delivered[t])
            /\ iter[t].index_ <= Len(transactions_[iter[t].user_])
            /\ \A k \in 1..Len(delivered[t]) :
                   delivered[t][k] = transactions_[iter[t].user_][it_start[t] + k]

C5_Witness ==
    \E t \in Threads :
        /\ Len(delivered[t]) >= 2
        /\ delivered[t][1] # delivered[t][2]
        /\ pc[t] = "idle"

(***************************************************************************)
(* C6: no wake-up is lost.  Under fair scheduling a thread does not stay   *)
(* inside wait_next_transaction while the log of its cursor's account      *)
(* holds an entry at the cursor's position: whether the entry was there at *)
(* the call or was appended while the thread was about to wait or was      *)
(* blocked, the call returns.                                              *)
(***************************************************************************)
WaitPcs == {"wn_lock", "wn_pred", "wn_wait", "wn_get", "wn_unlock"}

Undelivered(t) == pc[t] \in WaitPcs /\ WaitPredicate(iter[t])

C6_NoLostWakeup == []<>(\A t \in Threads : ~Undelivered(t))

\* A transaction was appended while the thread was blocked in the wait.
C6_Witness ==
    \E t \in Threads :
        /\ pc[t] = "wn_wait"
        /\ t \notin cv_waiting[iter[t].user_]
        /\ WaitPredicate(iter[t])

(***************************************************************************)
(* C11: a transfer to the account itself, and a transfer of a negative     *)
(* amount, throws invalid_transfer_error at its first step, with the       *)
(* message of the test that failed (the test for a self-transfer comes     *)
(* first), and that step is the whole call: it changes no balance, no log, *)
(* no mutex, wakes no waiting thread and delivers nothing.                 *)
(***************************************************************************)
Invalid(t) ==
    frame[t].this = frame[t].counterparty \/ frame[t].amount_xts < 0

C11_Step(t) ==
    /\ pc[t] = "tr_check"
    /\ pc'[t] = "idle"
    /\ ret'[t] =
           [kind |-> "invalid_transfer_error",
            what |-> IF frame[t].this = frame[t].counterparty
                     THEN "Self-transfer"
                     ELSE "Negative amount, you're lose:("]
    /\ UNCHANGED <<ledger, heap, iter, delivered>>

C11_InvalidTransfer ==
    [][\A t \in Threads : InTransfer(t) /\ Invalid(t) /\ StepOf(t) => C11_Step(t)]_vars

\* A transfer of a negative amount has failed while the other thread is
\* blocked in wait_next_transaction on an account.
C11_Witness ==
    \E t \in Threads, u \in Threads :
        /\ pc[t] = "idle"
        /\ ret[t] = invalid_transfer_error("Negative amount, you're lose:(")
        /\ pc[u] = "wn_wait"
        /\ u \in cv_waiting[iter[u].user_]

(***************************************************************************)
(* C12: the log and the balance the visitor of snapshot_transactions is    *)
(* given agree (the deltas of the log sum to the balance), and for as long *)
(* as the visitor runs the account's log and balance stay what they were   *)
(* when it began, whatever the other threads do.                           *)
(***************************************************************************)
Consistent(v) == SumDeltas(v.log) = v.balance

C12_SnapshotConsistent ==
    \A t \in Threads :
        /\ pc[t] = "snap_visited" =>
               /\ Consistent(ret[t].begin)
               /\ View(frame[t].this) = ret[t].begin
        /\ ret[t].kind \in {"visited", "snapshot"} =>
               /\ Consistent(ret[t].begin)
               /\ ret[t].end = ret[t].begin

\* The visitor runs on an account an earlier transfer has changed while
\* another transfer on that account tries to get its mutexes.
C12_Witness ==
    \E t \in Threads, u \in Threads :
        /\ pc[t] = "snap_visited"
        /\ Len(ret[t].begin.log) >= 2
        /\ InTransfer(u)
        /\ pc[u] \in {"sl_lock", "sl_try", "sl_backoff"}
        /\ frame[t].this \in {frame[u].this, frame[u].counterparty}
        /\ ~Invalid(u)

(***************************************************************************)
(* C13: the iterator snapshot_transactions returns stands at the length of *)
(* the log its visitor saw, and the iterator monitor returns at the length *)
(* of the log as it was under the account's mutex.  That log stays the     *)
(* beginning of the account's log, so that the first                       *)
(* wait_next_transaction on the iterator returns the first entry appended  *)
(* after it: none the visitor saw, and none is skipped.                    *)
(***************************************************************************)
IteratorPcs == {"snap_unlock", "mon_unlock"}

C13_CursorAtLogEnd ==
    \A t \in Threads :
        /\ pc[t] \in IteratorPcs =>
               /\ mutex_[frame[t].this] = t
               /\ iter[t] = [user_ |-> frame[t].this,
                             index_ |-> Len(transactions_[frame[t].this])]
               /\ it_made[t].log = transactions_[frame[t].this]
        /\ pc[t] = "snap_unlock" => it_made[t].log = ret[t].begin.log
        /\ ret[t].kind = "snapshot" =>
               ret[t].it = [user_ |-> ret[t].it.user_,
                            index_ |-> Len(ret[t].end.log)]
        /\ iter[t].user_ # nullptr =>
               /\ it_start[t] = Len(it_made[t].log)
               /\ it_made[t].log =
                      SubSeq(transactions_[iter[t].user_], 1, it_start[t])
               /\ Len(delivered[t]) >= 1 =>
                      delivered[t][1] =
                          transactions_[iter[t].user_][Len(it_made[t].log) + 1]

\* The iterator of a snapshot has delivered its first transaction.
C13_Witness ==
    \E t \in Threads :
        /\ it_made[t].op = "snapshot_transactions"
        /\ Len(delivered[t]) = 1
        /\ pc[t] = "idle"

(***************************************************************************)
(* C14: threads exchange 10 between Alice and Bob, who start with 100,     *)
(* each thread alternating the two directions.  As stated for any such     *)
(* threads: every balance balance_xts returns is 90, 100 or 110, and when  *)
(* all threads have stopped after whole rounds both balances are 100 and   *)
(* each log holds the opening entry and one entry per transfer.            *)
(***************************************************************************)
Alternates(s) ==
    \A i \in 1..(Len(s) - 1) : s[i + 1] = <<s[i][2], s[i][1]>>

Exchanging == \A t \in Threads : Alternates(called[t])

\* No two threads begin with the same direction.
OppositeStarts ==
    \A t \in Threads, u \in Threads :
        t # u /\ called[t] # <<>> /\ called[u] # <<>> =>
            called[t][1] # called[u][1]

Stopped == \A t \in Threads : pc[t] = "idle" /\ Len(called[t]) % 2 = 0

Transfers ==
    Cardinality(UNION {{<<t, i>> : i \in 1..Len(called[t])} : t \in Threads})

BalancesRead ==
    \A t \in Threads : ret[t].kind = "int" => ret[t].int \in {90, 100, 110}

BalancesRestored ==
    Stopped =>
        \A a \in Accounts :
            /\ balance_[a] = 100
            /\ Len(transactions_[a]) = 1 + Transfers

C14_AnyExchange == Exchanging => BalancesRead /\ BalancesRestored

(***************************************************************************)
(* C14, amended: the same, for threads no two of which begin with the same *)
(* direction (one thread, or two that begin in opposite directions as in   *)
(* the test).                                                              *)
(***************************************************************************)
C14_OppositeExchange ==
    Exchanging /\ OppositeStarts => BalancesRead /\ BalancesRestored

\* Two threads have each made a whole round, beginning in opposite
\* directions, and a balance other than 100 was read on the way.
C14_Witness ==
    /\ Stopped
    /\ Exchanging
    /\ OppositeStarts
    /\ \A t \in Threads : Len(called[t]) = 2
    /\ \E t \in Threads : ret[t].kind = "int" /\ ret[t].int # 100

(***************************************************************************)
(* C15: iterators are independent.  A step of a thread inside              *)
(* wait_next_transaction changes no iterator but the thread's own, no      *)
(* balance and no log; its own iterator stays on its account, its index_   *)
(* grows by exactly one in the step that takes the transaction and is      *)
(* unchanged in every other step.  Copying leaves the original as it was   *)
(* and gives the copy the original's account and index_.  A copy and its   *)
(* original are on the same account, and the k-th transaction the copy     *)
(* delivers is the k-th the original delivers after the copy was made.     *)
(***************************************************************************)
InWait(t) == frame[t].op = "wait_next_transaction"

C15_Step(t) ==
    /\ \A u \in Threads \ {t} : iter'[u] = iter[u]
    /\ balance_' = balance_
    /\ transactions_' = transactions_
    /\ iter'[t].user_ = iter[t].user_
    /\ iter'[t].index_ = IF pc[t] = "wn_get" THEN iter[t].index_ + 1
                         ELSE iter[t].index_

C15_Copy(u) ==
    LET t == it_made'[u].of
    IN  /\ iter'[u] = iter[t]
        /\ \A v \in Threads \ {u} : iter'[v] = iter[v]
        /\ balance_' = balance_
        /\ transactions_' = transactions_

CopiesAgree ==
    \A u \in Threads :
        it_made[u].of # NoThread =>
            LET t == it_made[u].of
                at == it_made[u].at
            IN  /\ iter[u].user_ = iter[t].user_
                /\ \A k \in 1..Len(delivered[u]) :
                       at + k <= Len(delivered[t]) =>
                           delivered[u][k] = delivered[t][at + k]

C15_CursorsIndependent ==
    /\ []CopiesAgree
    /\ [][/\ \A t \in Threads : InWait(t) /\ StepOf(t) => C15_Step(t)
          /\ \A u \in Threads :
                 it_made'[u] # it_made[u] /\ it_made'[u].of # NoThread =>
                     C15_Copy(u)]_vars

\* An iterator and a copy of it have each delivered the transaction that
\* was appended after the copy was made.
C15_Witness ==
    \E u \in Threads :
        /\ it_made[u].of # NoThread
        /\ Len(delivered[u]) >= 1
        /\ Len(delivered[it_made[u].of]) >= it_made[u].at + 1
        /\ iter[u] = iter[it_made[u].of]

(***************************************************************************)
(* C16: the logs are append-only.  Across every step of every call, of     *)
(* whatever outcome, every user object remains, its log as it was is the   *)
(* beginning of its log as it is, and every name the ledger maps remains   *)
(* mapped to the same object.                                              *)
(***************************************************************************)
IsPrefix(s, r) == Len(s) <= Len(r) /\ s = SubSeq(r, 1, Len(s))

C16_Step ==
    /\ \A a \in Users :
           /\ a \in DOMAIN transactions_'
           /\ IsPrefix(transactions_[a], transactions_'[a])
           /\ name_'[a] = name_[a]
    /\ \A n \in DOMAIN users_ : n \in DOMAIN users_' /\ users_'[n] = users_[n]

C16_AppendOnly == [][C16_Step]_vars

\* A log has grown by two transfers, and a transfer has been refused.
C16_Witness ==
    /\ \E a \in Accounts : Len(transactions_[a]) >= 3
    /\ \E t \in Threads :
           ret[t].kind \in {"invalid_transfer_error", "not_enough_funds_error"}

(***************************************************************************)
(* C17: a thread blocked in the wait of wait_next_transaction owns no      *)
(* mutex, and under fair scheduling every call of get_or_create_user,      *)
(* balance_xts, transfer, snapshot_transactions and monitor returns,       *)
(* whatever threads are blocked in wait_next_transaction on the same       *)
(* accounts: again and again every thread is outside these calls.          *)
(***************************************************************************)
Blocked(t) == pc[t] = "wn_wait" /\ t \in cv_waiting[iter[t].user_]

BlockedOwnsNothing ==
    \A t \in Threads :
        pc[t] = "wn_wait" =>
            /\ ledger_mutex # t
            /\ \A a \in Users : mutex_[a] # t

OutsideCalls == \A t \in Threads : pc[t] = "idle" \/ InWait(t)

CriticalPcs ==
    {"tr_funds", "tr_debit", "tr_debit_log", "tr_credit", "tr_credit_log",
     "tr_unlock"}

InCritical(t) == InTransfer(t) /\ pc[t] \in CriticalPcs

Touches(t, a) == a \in {frame[t].this, frame[t].counterparty}

MutualExclusion ==
    /\ \A t \in Threads :
           InCritical(t) =>
               mutex_[frame[t].this] = t /\ mutex_[frame[t].counterparty] = t
    /\ \A a \in Users :
           Cardinality({t \in Threads : InCritical(t) /\ Touches(t, a)}) <= 1
    /\ \A t \in Threads :
           /\ pc[t] \in ObserverPcs => mutex_[frame[t].this] = t
           /\ pc[t] \in {"ctor_add", "ctor_unlock"} => mutex_[frame[t].obj] = t

WrittenByOwner ==
    \A a \in Users :
        balance_'[a] # balance_[a] \/ transactions_'[a] # transactions_[a] =>
            /\ mutex_[a] # NoThread
            /\ pc'[mutex_[a]] # pc[mutex_[a]]

C18_MutualExclusion == []MutualExclusion /\ [][WrittenByOwner]_vars

\* A transfer is in its critical section while another transfer touching
\* one of its accounts waits for the mutex.
C18_Witness ==
    \E t \in Threads, u \in Threads :
        /\ InCritical(t)
        /\ pc[t] = "tr_credit"
        /\ InTransfer(u)
        /\ ~Invalid(u)
        /\ pc[u] = "sl_lock"
        /\ Touches(t, Held(u)[frame[u].first + 1])

(***************************************************************************)
(* C19: after the command monitor, the listing and the lines pushed cover  *)
(* the log without a hole: the iterator of the stream stands at the length *)
(* of the log the listing was written from, and the k-th line pushed is    *)
(* the line of the k-th transaction appended after that log.               *)
(***************************************************************************)
Streams(t) == session[t].at \in {"wait_next_transaction", "pushed"}

C19_MonitorNoHole ==
    \A t \in Threads :
        Streams(t) =>
            /\ it_start[t] = Len(session[t].listed)
            /\ \A k \in 1..Len(session[t].pushed) :
                   session[t].pushed[k] =
                       Line(transactions_[session[t].user_]
                                [Len(session[t].listed) + k])

(***************************************************************************)
(* C20: wait_next_transaction does not return early and does not read      *)
(* past the log.  A thread inside the call whose cursor stands at the end  *)
(* of the log of its account has not passed the wait, whatever was         *)
(* appended to other accounts and whichever wake-ups it had; a thread      *)
(* passes the wait only with an entry at the cursor's position; and at     *)
(* the return the transaction returned is the entry of the log right       *)
(* before the cursor, at an index smaller than the length of the log.      *)
(***************************************************************************)
AtLogEnd(t) == iter[t].index_ >= Len(transactions_[iter[t].user_])

StaysBlocked ==
    \A t \in Threads :
        InWait(t) /\ AtLogEnd(t) /\ pc[t] # "wn_unlock" =>
            pc[t] \in {"wn_lock", "wn_pred", "wn_wait"}

PassesWithEntry ==
    \A t \in Threads :
        InWait(t) /\ pc[t] \in {"wn_pred", "wn_wait"} /\ pc'[t] = "wn_get" =>
            iter[t].index_ < Len(transactions_'[iter[t].user_])

ReturnsEntry ==
    \A t \in Threads :
        pc[t] = "wn_unlock" /\ pc'[t] = "idle" =>
            /\ iter'[t].index_ - 1 < Len(transactions_'[iter'[t].user_])
            /\ iter'[t].index_ - 1 >= it_start[t]
            /\ ret'[t].kind = "transaction"
            /\ ret'[t].transaction =
                   transactions_'[iter'[t].user_][iter'[t].index_]

C20_WaitNeitherEarlyNorPast ==
    []StaysBlocked /\ [][PassesWithEntry /\ ReturnsEntry]_vars

\* A thread that had a wake-up without a new entry, at the end of its
\* account's log, while another thread has just appended the initial
\* deposit to the log of a new account.
C20_Witness ==
    \E t \in Threads : \E u \in Threads \ {t} :
        /\ pc[t] = "wn_wait"
        /\ t \notin cv_waiting[iter[t].user_]
        /\ AtLogEnd(t)
        /\ pc[u] = "ctor_unlock"
        /\ frame[u].obj # iter[t].user_

(***************************************************************************)
(* C21, as stated: a thread that holds the ledger's mutex owns no          *)
(* account's mutex and is not about to lock one.                           *)
(***************************************************************************)
HoldsLedger(t) == ledger_mutex = t

Owned(t) == {a \in Users : mutex_[a] = t}

C21_LedgerLockOnly ==
    \A t \in Threads :
        HoldsLedger(t) => Owned(t) = {} /\ pc[t] # "ctor_lock"

(***************************************************************************)
(* C21, amended: a thread that holds the ledger's mutex never waits for    *)
(* an account's mutex, and the only account mutex it locks is that of the  *)
(* account it is constructing, which is not in the mapping yet, which no   *)
(* caller has a reference to and whose mutex nobody else owns.             *)
(***************************************************************************)
Unpublished(a) ==
    /\ a \notin Accounts
    /\ \A n \in DOMAIN got : a \notin got[n]
    /\ \A u \in Threads : iter[u].user_ # a

C21_LedgerLockNeverWaits ==
    \A t \in Threads :
        HoldsLedger(t) =>
            /\ Owned(t) \subseteq {frame[t].obj}
            /\ Owned(t) # {} \/ pc[t] = "ctor_lock" =>
                   /\ pc[t] \in CtorPcs
                   /\ Unpublished(frame[t].obj)
                   /\ mutex_[frame[t].obj] \in {NoThread, t}

\* The constructor of a new account owns its mutex under the ledger's
\* mutex while another thread owns the mutex of an account of the ledger.
C21_Witness ==
    \E t \in Threads : \E u \in Threads \ {t} :
        /\ HoldsLedger(t)
        /\ pc[t] = "ctor_add"
        /\ Owned(t) = {frame[t].obj}
        /\ \E a \in Accounts : mutex_[a] = u

(***************************************************************************)
(* C22: a thread that executes transfer neither owns the ledger's mutex    *)
(* nor is about to lock it, so it never owns the ledger's mutex together   *)
(* with an account's mutex; and the mapping users_ changes only in a step  *)
(* of the thread that owns the ledger's mutex.                             *)
(***************************************************************************)
TransferWithoutLedger ==
    \A t \in Threads :
        InTransfer(t) => ~HoldsLedger(t) /\ pc[t] # "gc_lock"

MappingUnderLedgerLock ==
    users_' # users_ =>
        /\ ledger_mutex # NoThread
        /\ pc'[ledger_mutex] # pc[ledger_mutex]
        /\ pc[ledger_mutex] = "gc_emplace"

C22_LedgerLockApart == []TransferWithoutLedger /\ [][MappingUnderLedgerLock]_vars

\* A transfer is in its critical section, owning both accounts' mutexes,
\* while another thread owns the ledger's mutex.
C22_Witness ==
    \E t \in Threads : \E u \in Threads \ {t} :
        /\ InCritical(t)
        /\ Owned(t) = {frame[t].this, frame[t].counterparty}
        /\ HoldsLedger(u)
        /\ ledger_mutex # t

(***************************************************************************)
(* C23: only a transfer owns two account mutexes at once.  A thread that   *)
(* executes balance_xts, snapshot_transactions, monitor,                   *)
(* wait_next_transaction or get_or_create_user owns at most one account    *)
(* mutex, and a thread that executes transfer owns no mutex but those of   *)
(* its own account and of the counterparty.                                *)
(***************************************************************************)
SingleLockOps ==
    {"balance_xts", "snapshot_transactions", "monitor",
     "wait_next_transaction", "get_or_create_user"}

C23_TwoLocksOnlyInTransfer ==
    \A t \in Threads :
        /\ frame[t].op \in SingleLockOps => Cardinality(Owned(t)) <= 1
        /\ InTransfer(t) => Owned(t) \subseteq {frame[t].this, frame[t].counterparty}

\* A transfer owns the mutexes of both its accounts while a thread in
\* another member function waits for one of them.
C23_Witness ==
    \E t \in Threads : \E u \in Threads \ {t} :
        /\ InTransfer(t)
        /\ Cardinality(Owned(t)) = 2
        /\ frame[u].op \in SingleLockOps
        /\ pc[u] \in {"bal_lock", "snap_lock", "mon_lock", "wn_lock", "wn_wait"}
        /\ Owned(u) = {}

(***************************************************************************)
(* C24: whatever count n was sent, the listing of get_transactions holds   *)
(* the lines of the last min(n, L) entries of the log of length L that     *)
(* the snapshot showed, in log order (all of them when n is larger than    *)
(* L), and that snapshot's balance; the start index is max(L - n, 0).      *)
(***************************************************************************)
\* The count is smaller than a length of a log.
Below(n, len) == n[3] = 0 /\ n[4] = 0 /\ n[2] * 2^16 + n[1] < len

LastEntries(log, n) ==
    IF Below(n, Len(log))
    THEN SubSeq(log, Len(log) - (n[2] * 2^16 + n[1]) + 1, Len(log))
    ELSE log

Listed(t) == session[t].listed # <<>>

C24_ListingIsLastN ==
    \A t \in Threads :
        Listed(t) =>
            LET log == session[t].listed
                last == LastEntries(log, session[t].n)
            IN  /\ StartIndex(Len(log), session[t].n) = Len(log) - Len(last)
                /\ session[t].listing.lines = [i \in 1..Len(last) |-> Line(last[i])]
                /\ session[t].listing.balance = SumDeltas(log)

(***************************************************************************)
(* C25: money is conserved.  In every state in which no transfer is in     *)
(* its critical section, the balances of the accounts of the ledger sum    *)
(* to 100 times the number of these accounts.                              *)
(***************************************************************************)
RECURSIVE SumBalances(_)
SumBalances(S) ==
    IF S = {} THEN 0
    ELSE LET a == CHOOSE x \in S : TRUE
         IN  balance_[a] + SumBalances(S \ {a})

NoTransferInCritical == \A t \in Threads : ~InCritical(t)

C25_MoneyConserved ==
    NoTransferInCritical =>
        SumBalances(Accounts) = InitialBalance * Cardinality(Accounts)

\* After a transfer that succeeded and a transfer that failed for lack of
\* funds, with no transfer in its critical section.
C25_Witness ==
    /\ NoTransferInCritical
    /\ \E t \in Threads : ret[t].kind = "not_enough_funds_error"
    /\ \E a \in Accounts : balance_[a] > InitialBalance
    /\ Cardinality(Accounts) = 2

(***************************************************************************)
(* C26: the transfers between two accounts are in the same order in both   *)
(* logs.  Unless a transfer between a and b has written its entry to one   *)
(* log and not yet to the other, the entries of a's log with counterparty  *)
(* b, each turned into the entry the same transfer writes to b's log, are  *)
(* the entries of b's log with counterparty a, in the same order.          *)
(***************************************************************************)
Between(a, b) ==
    LET With(e) == e.counterparty = b
    IN  SelectSeq(transactions_[a], With)

Mirrored(log, a) == [i \in 1..Len(log) |-> Mirror(a, log[i])]

OneLogWritten(a, b) ==
    \E t \in Threads :
        /\ InTransfer(t)
        /\ {frame[t].this, frame[t].counterparty} = {a, b}
        /\ pc[t] \in {"tr_credit", "tr_credit_log"}

C26_SameOrderInBothLogs ==
    \A a \in Users : \A b \in Users \ {a} :
        ~OneLogWritten(a, b) => Mirrored(Between(a, b), a) = Between(b, a)

\* Two different transfers between the two accounts are in the logs while
\* a third one waits for a mutex.
C26_Witness ==
    \E a \in Users : \E b \in Users \ {a} :
        /\ ~OneLogWritten(a, b)
        /\ Len(Between(a, b)) >= 2
        /\ Between(a, b)[1] # Between(a, b)[2]
        /\ \E t \in Threads : InTransfer(t) /\ pc[t] \in {"sl_lock", "sl_try"}

(***************************************************************************)
(* C27: a transfer succeeds exactly when the two accounts differ and the   *)
(* amount is at least 0 and at most the balance of its own account, read   *)
(* with both mutexes held.  A transfer of 0 succeeds, leaves both balances *)
(* as they were and appends an entry of delta 0 to each log, notifying the *)
(* threads that wait on either account, whose iterators then have this     *)
(* entry to return; a transfer of the whole balance succeeds and leaves 0; *)
(* a transfer of a negative amount to the account itself throws            *)
(* "Self-transfer".                                                        *)
(***************************************************************************)
C27_Step(t) ==
    LET s == frame[t].this
        d == frame[t].counterparty
        x == frame[t].amount_xts
        c == frame[t].comment
    IN  /\ pc'[t] = "idle" =>
               (ret'[t].kind = "void" <=>
                    s # d /\ x >= 0 /\ x <= pre[t].balance[1])
        /\ pc[t] = "tr_funds" =>
               /\ mutex_[s] = t /\ mutex_[d] = t
               /\ pre'[t].balance[1] = balance_[s]
        /\ pc[t] = "tr_credit_log" /\ x = 0 =>
               /\ balance_'[s] = pre[t].balance[1]
               /\ balance_'[d] = pre[t].balance[2]
               /\ transactions_'[s] = Append(pre[t].log[1], transaction(d, 0, c))
               /\ transactions_'[d] = Append(pre[t].log[2], transaction(s, 0, c))
               /\ cv_waiting'[s] = {} /\ cv_waiting'[d] = {}
               /\ \A u \in Threads :
                      /\ iter[u].user_ = s /\ iter[u].index_ = Len(pre[t].log[1]) =>
                             NextTransaction(iter[u])' = transaction(d, 0, c)
                      /\ iter[u].user_ = d /\ iter[u].index_ = Len(pre[t].log[2]) =>
                             NextTransaction(iter[u])' = transaction(s, 0, c)
        /\ pc[t] = "tr_credit_log" /\ x = pre[t].balance[1] => balance_'[s] = 0
        /\ pc[t] = "tr_check" /\ s = d /\ x < 0 =>
               ret'[t] = invalid_transfer_error("Self-transfer")

C27_TransferLimits ==
    [][\A t \in Threads : InTransfer(t) /\ StepOf(t) => C27_Step(t)]_vars

\* A thread has been returned the entry of a transfer of 0 by
\* wait_next_transaction, and a transfer of its whole balance has left an
\* account with nothing.
C27_Witness ==
    /\ \E t \in Threads :
           /\ pc[t] = "idle"
           /\ ret[t].kind = "transaction"
           /\ ret[t].transaction.balance_delta_xts = 0
    /\ \E a \in Accounts : balance_[a] = 0

(***************************************************************************)
(* C28: the command transfer looks the counterparty up, creating it, and   *)
(* only then attempts the transfer.  A name that is not in the ledger is   *)
(* entered with an account of balance 100 and the opening transaction;     *)
(* the transfer is made to the account of the name, which for the          *)
(* client's own name is the client's own account and fails with            *)
(* "Self-transfer"; no account ever leaves the ledger, so the counterparty *)
(* is in the ledger at the reply, whatever the reply; and after the reply, *)
(* an error too, the connection reads the next command.                    *)
(***************************************************************************)
Opening(n) == <<transaction(nullptr, InitialBalance, InitialComment(n))>>

C28_Step(t) ==
    LET n == session[t].counterparty
    IN  /\ session[t].at = "get_or_create_user" /\ pc[t] = "gc_emplace"
              /\ n \notin DOMAIN users_ =>
               /\ n \in DOMAIN users_'
               /\ name_'[users_'[n]] = n
               /\ balance_'[users_'[n]] = InitialBalance
               /\ transactions_'[users_'[n]] = Opening(n)
        /\ session[t].at = "get_or_create_user" /\ session'[t].at = "transfer" =>
               /\ n \in DOMAIN users_
               /\ frame'[t].op = "transfer"
               /\ frame'[t].this = session[t].user_
               /\ frame'[t].counterparty = users_[n]
               /\ frame'[t].amount_xts = session[t].amount
        /\ session[t].at = "transfer" /\ session'[t].at # "transfer" =>
               /\ session'[t].at = "run"
               /\ n \in DOMAIN users_'
               /\ IF n = name_[session[t].user_]
                  THEN session'[t].reply = "Self-transfer"
                  ELSE IF session[t].amount < 0
                  THEN session'[t].reply = "Negative amount, you're lose:("
                  ELSE \/ session'[t].reply = "OK"
                       \/ \E b \in 0..(session[t].amount - 1) :
                              session'[t].reply =
                                  create_message(b, session[t].amount)

AccountsStay ==
    \A n \in DOMAIN users_ : n \in DOMAIN users_' /\ users_'[n] = users_[n]

C28_TransferCommand ==
    [][AccountsStay /\ \A t \in Threads : session'[t] # session[t] \/ StepOf(t)
                                            => C28_Step(t)]_vars

\* A transfer to Bob, who was not in the ledger, has failed for lack of
\* funds; Bob's account is in the ledger, and the connection executes its
\* next command.
C28_Witness ==
    \E t \in Threads :
        /\ session[t].reply = create_message(InitialBalance, InitialBalance + 1)
        /\ session[t].at \in {"transactions", "get_transactions", "get_or_create_user"}
        /\ "Bob" \in DOMAIN users_
        /\ balance_[users_["Bob"]] = InitialBalance
        /\ transactions_[users_["Bob"]] = Opening("Bob")

====
